---- MODULE Spec2Model ----
(***************************************************************************)
(* Model of app.py, the Streamlit "Lecture Voice-to-Notes" application.    *)
(*                                                                         *)
(* Three flows of one script run are modelled:                             *)
(*   SpecUpload   tab1: transcribe_audio, the success/error branch, and    *)
(*                the final-output block that calls generate_ai_notes      *)
(*   SpecYouTube  tab2: default fetch, fallback enumeration, handlers      *)
(*   SpecNotes    generate_ai_notes on character-level transcripts         *)
(*                                                                         *)
(* A Python string is a sequence of atoms that are concatenated without    *)
(* separators (a blank is the explicit atom " ").  In the upload and       *)
(* YouTube flows an atom is a word or a fixed literal; in the notes flow   *)
(* an atom is a single character.                                          *)
(***************************************************************************)
EXTENDS Integers, Sequences, FiniteSets, TLC

VARIABLES
    flow,             \* which flow this script run exercises
    pc,               \* position of the script run
    file_ext,         \* extension of the uploaded file
    files,            \* temporary files that currently exist on disk
    total_len,        \* len(audio) in milliseconds, -1 while audio is None
    texts,            \* the list `texts` of transcribe_audio
    submitted,        \* history: windows <<start, end>> handed to recognition
    outcomes,         \* history: what recognition answered for each window
    ret,              \* value returned by transcribe_audio
    ret_kind,         \* history: which return statement produced ret
    transcript_text,  \* module-level variable transcript_text
    session_text,     \* st.session_state.transcript_text
    branch,           \* tab1 branch taken: "success" / "error" / "none"
    notes_call,       \* history: argument generate_ai_notes was invoked with
    yt_url,           \* text of the YouTube URL input
    video_id,         \* result of extract_video_id
    data,             \* the variable `data` of the tab2 handler
    tracks,           \* what ytt.list returned: the fetch outcome of each track
    track_i,          \* number of tracks the fallback loop has tried
    orig_exc,         \* history: exception raised by the default fetch
    list_exc,         \* history: exception raised by ytt.list
    inner_exc,        \* history: last exception swallowed by the fallback loop
    exc,              \* exception propagating to the handlers of line 281-288
    message,          \* st.success / st.error text shown by tab2
    transcript,       \* argument, then local variable, of generate_ai_notes
    summarizer,       \* history: "none" / "loaded" / "load_failed" /
                      \*          "call_ok" / "call_failed"
    summary_text,     \* local summary_text
    key_points,       \* local key_points
    important_words,  \* local important_words
    notes,            \* value returned by generate_ai_notes
    raised            \* exception that left generate_ai_notes, or "none"

uploadVars == <<file_ext, files, total_len, texts, submitted, outcomes, ret,
               ret_kind, session_text, branch>>

ytVars == <<yt_url, video_id, data, tracks, track_i, orig_exc, list_exc,
           inner_exc, exc, message>>

notesVars == <<transcript, summarizer, summary_text, key_points,
              important_words, notes, raised>>

vars == <<flow, pc, file_ext, files, total_len, texts, submitted, outcomes,
          ret, ret_kind, transcript_text, session_text, branch, notes_call,
          ytVars, notesVars>>

(***************************************************************************)
(* Bounds                                                                  *)
(***************************************************************************)
\* number of whole 30 s windows in the longest modelled recording
MaxWindows == 10

(***************************************************************************)
(* Program constants                                                       *)
(***************************************************************************)
chunk_ms == 30000
max_chunks == 10

None == <<"None">>
Cross == "(x)"        \* the cross-mark glyph that starts every failure string

VideoExts == {"mp4", "avi", "mov", "mkv", "flv", "wmv", "webm"}

\* extensions of the uploaded files that are modelled
Exts == {"mp4", "wav"}

\* str(e) of the exceptions the collaborators raise
ExcMsgs == {<<"timeout">>, <<"OS", "Error">>}

\* texts the recognition service returns for a window
Recognized == {<<"deep", " ", "learning">>}

Unintelligible == <<"[Unintelligible]">>

\* durations (ms) of the decoded recordings that are modelled
Durations == {k * chunk_ms + d : k \in 0..MaxWindows, d \in {0, 1, chunk_ms \div 2}}

Min(a, b) == IF a < b THEN a ELSE b

(***************************************************************************)
(* String helpers                                                          *)
(***************************************************************************)
\* sep.join(parts)
RECURSIVE Join(_, _)
Join(parts, sep) ==
    IF Len(parts) = 0 THEN <<>>
    ELSE IF Len(parts) = 1 THEN parts[1]
    ELSE parts[1] \o sep \o Join(Tail(parts), sep)

\* `atom in s`
Contains(s, atom) == \E k \in 1..Len(s) : s[k] = atom

\* truthiness of a Python str
Truthy(s) == Len(s) > 0

(***************************************************************************)
(* transcribe_audio                                                        *)
(***************************************************************************)
NoAudioTrackMsg == <<Cross, " ", "No audio track found in video file">>
\* file_ext.upper()
UpperExt(ext) == IF ext = "mp4" THEN "MP4" ELSE IF ext = "wav" THEN "WAV" ELSE ext

CannotExtractMsg(ext, e) ==
    <<Cross, " ", "Cannot extract audio from ", UpperExt(ext), ":", " ">> \o e
CannotLoadMsg(e) == <<Cross, " ", "Cannot load audio file", ":", " ">> \o e
RequestFailedMsg(e) == <<Cross, " ", "recognition request failed", ":", " ">> \o e
OuterErrorMsg(e) == <<Cross, " ", "Error", ":", " ">> \o e

\* "[Note: Transcript truncated - first {} seconds only]".format(...)
TruncationNotice ==
    <<" ", "[Note: Transcript truncated - first ",
      ToString(max_chunks * (chunk_ms \div 1000)), " seconds only]">>

num_chunks_floor(len) == len \div chunk_ms
num_chunks(len) == (len + chunk_ms - 1) \div chunk_ms

\* range(min(num_chunks, max_chunks))
LoopBound(len) == Min(num_chunks(len), max_chunks)

\* the `finally` clause of the inner try: os.unlink(temp_path)
Finally(fs) == fs \ {"temp"}

\* a return statement executed inside the inner try
Return(value, kind, fs) ==
    /\ ret' = value
    /\ ret_kind' = kind
    /\ files' = Finally(fs)
    /\ pc' = "returned"

\* lines 37-45: copy the upload into a NamedTemporaryFile(delete=False)
SaveTemp ==
    /\ flow = "upload" /\ pc = "start"
    /\ files' = files \cup {"temp"}
    /\ pc' = IF file_ext \in VideoExts THEN "video_open" ELSE "load_audio"
    /\ UNCHANGED <<flow, file_ext, total_len, texts, submitted, outcomes, ret,
                   ret_kind, transcript_text, session_text, branch, notes_call>>
    /\ UNCHANGED <<ytVars, notesVars>>

\* lines 57-61: VideoFileClip(temp_path), video.audio
VideoOpen ==
    /\ flow = "upload" /\ pc = "video_open"
    /\ \/ \E e \in ExcMsgs : Return(CannotExtractMsg(file_ext, e), "cannot_extract", files)
       \/ Return(NoAudioTrackMsg, "no_audio_track", files)
       \/ /\ pc' = "write_audio"
          /\ UNCHANGED <<ret, ret_kind, files>>
    /\ UNCHANGED <<flow, file_ext, total_len, texts, submitted, outcomes,
                   transcript_text, session_text, branch, notes_call>>
    /\ UNCHANGED <<ytVars, notesVars>>

\* lines 63-65: audio_clip.write_audiofile(wav_path); video.close()
WriteAudio ==
    /\ flow = "upload" /\ pc = "write_audio"
    /\ \/ \* raises before or after the wav file came into existence
          \E e \in ExcMsgs, created \in BOOLEAN :
             Return(CannotExtractMsg(file_ext, e), "cannot_extract",
                    IF created THEN files \cup {"wav"} ELSE files)
       \/ /\ files' = files \cup {"wav"}
          /\ pc' = "load_wav"
          /\ UNCHANGED <<ret, ret_kind>>
    /\ UNCHANGED <<flow, file_ext, total_len, texts, submitted, outcomes,
                   transcript_text, session_text, branch, notes_call>>
    /\ UNCHANGED <<ytVars, notesVars>>

\* lines 66-72: AudioSegment.from_file(wav_path); os.unlink(wav_path)
LoadWav ==
    /\ flow = "upload" /\ pc = "load_wav"
    /\ \/ \E e \in ExcMsgs : Return(CannotExtractMsg(file_ext, e), "cannot_extract", files)
          /\ UNCHANGED total_len
       \/ \E d \in Durations :
             /\ total_len' = d
             /\ files' = files \ {"wav"}
             /\ pc' = "loop"
             /\ UNCHANGED <<ret, ret_kind>>
    /\ UNCHANGED <<flow, file_ext, texts, submitted, outcomes,
                   transcript_text, session_text, branch, notes_call>>
    /\ UNCHANGED <<ytVars, notesVars>>

\* lines 76-90: AudioSegment.from_file(temp_path) and the fallback loaders
LoadAudio ==
    /\ flow = "upload" /\ pc = "load_audio"
    /\ \/ \E e \in ExcMsgs : Return(CannotLoadMsg(e), "cannot_load", files)
          /\ UNCHANGED total_len
       \/ \E d \in Durations :
             /\ total_len' = d
             /\ pc' = "loop"
             /\ UNCHANGED <<ret, ret_kind, files>>
    /\ UNCHANGED <<flow, file_ext, texts, submitted, outcomes,
                   transcript_text, session_text, branch, notes_call>>
    /\ UNCHANGED <<ytVars, notesVars>>

\* lines 105-107: the window of iteration i (0-based), as <<start, end>>
Window(i, len) == <<i * chunk_ms, Min(i * chunk_ms + chunk_ms, len)>>

\* lines 116-117: recognize_google answered with a text
ChunkRecognized ==
    \E part \in Recognized :
        /\ texts' = Append(texts, part)
        /\ outcomes' = Append(outcomes, [kind |-> "text", text |-> part])
        /\ UNCHANGED <<pc, ret, ret_kind, files>>

\* variant of the sr.RequestError clause that marks the window and goes on
ChunkRequestError_continue ==
    \E e \in ExcMsgs :
        /\ texts' = Append(texts, Unintelligible)
        /\ outcomes' = Append(outcomes, [kind |-> "request_error", text |-> e])
        /\ UNCHANGED <<pc, ret, ret_kind, files>>

\* lines 118-119: except sr.RequestError
ChunkRequestError ==
    \E e \in ExcMsgs :
        /\ outcomes' = Append(outcomes, [kind |-> "request_error", text |-> e])
        /\ Return(RequestFailedMsg(e), "request_failed", files)
        /\ UNCHANGED texts

\* variant of the sr.UnknownValueError clause that drops the window
ChunkUnknownValue_skip ==
    /\ outcomes' = Append(outcomes, [kind |-> "unknown", text |-> <<>>])
    /\ UNCHANGED <<texts, pc, ret, ret_kind, files>>

\* lines 120-121: except sr.UnknownValueError
ChunkUnknownValue ==
    /\ texts' = Append(texts, Unintelligible)
    /\ outcomes' = Append(outcomes, [kind |-> "unknown", text |-> <<>>])
    /\ UNCHANGED <<pc, ret, ret_kind, files>>

\* any other exception of the loop body (chunk.export, sr.AudioFile) leaves
\* the inner try through `finally` and is answered by line 138-139
ChunkOtherError ==
    \E e \in ExcMsgs :
        /\ outcomes' = Append(outcomes, [kind |-> "other_error", text |-> e])
        /\ Return(OuterErrorMsg(e), "outer_error", files)
        /\ UNCHANGED texts

\* lines 104-121: one iteration of the chunk loop; the loop variable i is
\* the number of windows handled so far
RecognizeChunk ==
    /\ flow = "upload" /\ pc = "loop"
    /\ Len(outcomes) < LoopBound(total_len)
    /\ submitted' = Append(submitted, Window(Len(outcomes), total_len))
    /\ \/ ChunkRecognized
       \/ ChunkRequestError
       \/ ChunkUnknownValue
       \/ ChunkOtherError
    /\ UNCHANGED <<flow, file_ext, total_len,
                   transcript_text, session_text, branch, notes_call>>
    /\ UNCHANGED <<ytVars, notesVars>>

\* lines 123-126: join, truncation notice, return
ReturnResult ==
    /\ flow = "upload" /\ pc = "loop"
    /\ Len(outcomes) >= LoopBound(total_len)
    /\ LET result == Join(texts, <<" ">>)
       IN  Return(IF num_chunks(total_len) > max_chunks
                  THEN result \o TruncationNotice ELSE result,
                  "ok", files)
    /\ UNCHANGED <<flow, file_ext, total_len, texts, submitted, outcomes,
                   transcript_text, session_text, branch, notes_call>>
    /\ UNCHANGED <<ytVars, notesVars>>

(***************************************************************************)
(* tab1 and the final output block                                         *)
(***************************************************************************)
\* lines 239-246
Tab1Branch ==
    /\ flow = "upload" /\ pc = "returned"
    /\ transcript_text' = ret
    /\ IF Truthy(ret) /\ ~Contains(ret, "Error")
       THEN /\ branch' = "success"
            /\ session_text' = ret
       ELSE /\ branch' = "error"
            /\ UNCHANGED session_text
    /\ pc' = "final"
    /\ UNCHANGED <<flow, file_ext, files, total_len, texts, submitted,
                   outcomes, ret, ret_kind, notes_call>>
    /\ UNCHANGED <<ytVars, notesVars>>

\* lines 293-296
FinalOutput ==
    /\ flow \in {"upload", "youtube"} /\ pc = "final"
    /\ notes_call' = IF Truthy(transcript_text) THEN transcript_text ELSE None
    /\ pc' = "done"
    /\ UNCHANGED <<flow, file_ext, files, total_len, texts, submitted,
                   outcomes, ret, ret_kind, transcript_text, session_text,
                   branch>>
    /\ UNCHANGED <<ytVars, notesVars>>

YtIdle ==
    /\ yt_url = <<>>
    /\ video_id = None
    /\ data = None
    /\ tracks = <<>>
    /\ track_i = 0
    /\ orig_exc = "none"
    /\ list_exc = "none"
    /\ inner_exc = "none"
    /\ exc = "none"
    /\ message = None

NotesIdle ==
    /\ transcript = <<>>
    /\ summarizer = "none"
    /\ summary_text = None
    /\ key_points = <<>>
    /\ important_words = <<>>
    /\ notes = None
    /\ raised = "none"

UploadIdle ==
    /\ file_ext = "none"
    /\ files = {}
    /\ total_len = -1
    /\ texts = <<>>
    /\ submitted = <<>>
    /\ outcomes = <<>>
    /\ ret = None
    /\ ret_kind = "none"
    /\ session_text = None
    /\ branch = "none"

InitUpload ==
    /\ flow = "upload"
    /\ pc = "start"
    /\ file_ext \in Exts
    /\ files = {}
    /\ total_len = -1
    /\ texts = <<>>
    /\ submitted = <<>>
    /\ outcomes = <<>>
    /\ ret = None
    /\ ret_kind = "none"
    /\ transcript_text = <<>>
    /\ session_text = None
    /\ branch = "none"
    /\ notes_call = None
    /\ YtIdle
    /\ NotesIdle

NextUpload ==
    \/ SaveTemp
    \/ VideoOpen
    \/ WriteAudio
    \/ LoadWav
    \/ LoadAudio
    \/ RecognizeChunk
    \/ ReturnResult
    \/ Tab1Branch
    \/ FinalOutput

SpecUpload == InitUpload /\ [][NextUpload]_vars

(***************************************************************************)
(* Properties of the upload flow                                           *)
(***************************************************************************)
Returned == ret_kind # "none"
Failed == ret_kind \notin {"none", "ok"}

\* s ends with suffix
EndsWith(s, suffix) ==
    /\ Len(s) >= Len(suffix)
    /\ SubSeq(s, Len(s) - Len(suffix) + 1, Len(s)) = suffix

\* part occurs in s as a contiguous run
IsInfix(part, s) ==
    \E k \in 0..(Len(s) - Len(part)) : SubSeq(s, k + 1, k + Len(part)) = part

\* ceil(D / 30 s) for a duration D in milliseconds
Ceil30(D) ==
    CHOOSE n \in 0..(D \div 30000 + 1) :
        /\ n * 30000 >= D
        /\ n = 0 \/ (n - 1) * 30000 < D

Notice300 ==
    <<" ", "[Note: Transcript truncated - first ", "300", " seconds only]">>

\* the entry window j contributes to the transcript
Entry(j) ==
    IF outcomes[j].kind = "text" THEN outcomes[j].text ELSE <<"[Unintelligible]">>

RECURSIVE EntriesJoined(_)
EntriesJoined(n) ==
    IF n = 0 THEN <<>>
    ELSE IF n = 1 THEN Entry(1)
    ELSE EntriesJoined(n - 1) \o <<" ">> \o Entry(n)

\* C1: when transcribe_audio returns a failure string, generate_ai_notes is
\* never invoked with that string
C1_FailureHaltsPipeline == Failed => notes_call = None

\* C2: a RequestError in window k aborts at once: it is the last window
\* submitted, the return value is the error string alone, and no text
\* recognized for an earlier window occurs in it
C2_RequestErrorAborts ==
    \A k \in 1..Len(outcomes) :
        outcomes[k].kind = "request_error" =>
            /\ k = Len(outcomes)
            /\ Len(submitted) = k
            /\ pc # "loop"
            /\ ret_kind = "request_failed"
            /\ ret = <<Cross, " ", "recognition request failed", ":", " ">>
                        \o outcomes[k].text
            /\ \A j \in 1..(k - 1) :
                  outcomes[j].kind = "text" => ~IsInfix(outcomes[j].text, ret)

C2_Witness ==
    /\ pc = "done"
    /\ ret_kind = "request_failed"
    /\ Len(outcomes) = 3
    /\ outcomes[1].kind = "text"
    /\ outcomes[2].kind = "text"
    /\ LoopBound(total_len) > 3

C4_TempFilesRemoved == Returned => files = {}

C10_SuccessIffTranscript ==
    branch # "none" => (branch = "success" <=> ret_kind = "ok")

(***************************************************************************)
(* tab2: the YouTube flow                                                  *)
(***************************************************************************)
\* number of caption tracks ytt.list returns at most
MaxTracks == 2

\* the character class [0-9A-Za-z_-]
IdChars ==
    {"0", "1", "2", "3", "4", "5", "6", "7", "8", "9", "A", "B", "C", "D", "E", "F",
     "G", "H", "I", "J", "K", "L", "M", "N", "O", "P", "Q", "R", "S", "T", "U", "V",
     "W", "X", "Y", "Z", "a", "b", "c", "d", "e", "f", "g", "h", "i", "j", "k", "l",
     "m", "n", "o", "p", "q", "r", "s", "t", "u", "v", "w", "x", "y", "z", "_", "-"}

UrlWatch ==
    <<"h", "t", "t", "p", "s", ":", "/", "/", "y", "o", "u", "t", "u",
      "b", "e", ".", "c", "o", "m", "/", "w", "a", "t", "c", "h", "?",
      "v", "=", "A", "B", "C", "D", "E", "F", "G", "H", "I", "J", "K">>
UrlShort ==
    <<"h", "t", "t", "p", "s", ":", "/", "/", "y", "o", "u", "t", "u",
      ".", "b", "e", "/", "A", "B", "C", "D", "E", "F", "G", "H", "I",
      "J", "K">>
UrlBad ==
    <<"l", "e", "c", "t", "u", "r", "e", " ", "a", "b", "o", "u", "t",
      " ", "g", "r", "a", "p", "h", "s">>

\* URLs typed into the text input; each is a sequence of characters
Urls == {<<>>, UrlWatch, UrlShort, UrlBad}

\* [0-9A-Za-z_-]{11} matches at position q
IdAt(s, q) == q + 10 <= Len(s) /\ \A k \in q..(q + 10) : s[k] \in IdChars

\* group(1) of the pattern (?:v=|\/)([0-9A-Za-z_-]{11}) matched at position p
MatchAt(s, p) ==
    IF p + 1 <= Len(s) /\ s[p] = "v" /\ s[p + 1] = "=" /\ IdAt(s, p + 2)
    THEN SubSeq(s, p + 2, p + 12)
    ELSE IF s[p] = "/" /\ IdAt(s, p + 1)
    THEN SubSeq(s, p + 1, p + 11)
    ELSE None

\* lines 26-30: re.search returns the leftmost match
extract_video_id(url) ==
    LET hits == {p \in 1..Len(url) : MatchAt(url, p) # None}
    IN  IF hits = {} THEN None
        ELSE MatchAt(url, CHOOSE p \in hits : \A q \in hits : p <= q)

\* exception classes that reach the handler; CouldNotRetrieveTranscript
\* stands for the base class and its subclasses that are not named here,
\* Exception for everything outside the library's hierarchy
ExcKinds == {"TranscriptsDisabled", "NoTranscriptFound", "VideoUnavailable",
             "CouldNotRetrieveTranscript", "Exception"}

\* isinstance(e, cls): the three named classes derive from
\* CouldNotRetrieveTranscript, everything derives from Exception
IsInstance(e, cls) ==
    \/ e = cls
    \/ cls = "Exception"
    \/ /\ cls = "CouldNotRetrieveTranscript"
       /\ e \in {"TranscriptsDisabled", "NoTranscriptFound", "VideoUnavailable"}

\* what ytt.list raises: NoTranscriptFound comes from picking a language,
\* which listing does not do
ListExcKinds == ExcKinds \ {"NoTranscriptFound"}

\* str(e)
Str(e) == <<"<", e, ">">>

\* transcripts a fetch returns: lists of snippet texts
FetchedData == {<<>>, << <<"intro">>, <<"to", " ", "graphs">> >>}

\* what t.fetch() does for one caption track
TrackOutcomes ==
    {[kind |-> "raise", exc |-> e, data |-> <<>>] :
        e \in {"CouldNotRetrieveTranscript", "Exception"}}
    \cup {[kind |-> "data", exc |-> "none", data |-> d] : d \in FetchedData}

TrackLists == UNION {[1..n -> TrackOutcomes] : n \in 0..MaxTracks}

\* lines 252-254, 289-290
YtSubmit ==
    /\ flow = "youtube" /\ pc = "start"
    /\ IF ~Truthy(yt_url)
       THEN /\ pc' = "final"
            /\ UNCHANGED <<video_id, message>>
       ELSE /\ video_id' = extract_video_id(yt_url)
            /\ IF video_id' = None
               THEN /\ message' = <<"Invalid YouTube URL.">>
                    /\ pc' = "final"
               ELSE /\ pc' = "fetch"
                    /\ UNCHANGED message
    /\ UNCHANGED <<yt_url, data, tracks, track_i, orig_exc, list_exc,
                   inner_exc, exc>>
    /\ UNCHANGED <<flow, uploadVars, transcript_text, notes_call, notesVars>>

\* line 263: except (NoTranscriptFound, CouldNotRetrieveTranscript,
\*                   TranscriptsDisabled)
FallbackCatches(e) ==
    \/ IsInstance(e, "NoTranscriptFound")
    \/ IsInstance(e, "CouldNotRetrieveTranscript")
    \/ IsInstance(e, "TranscriptsDisabled")

\* lines 259-263: ytt.fetch(video_id)
DefaultFetch ==
    /\ flow = "youtube" /\ pc = "fetch"
    /\ \/ \E d \in FetchedData :
             /\ data' = d
             /\ pc' = "join"
             /\ UNCHANGED <<orig_exc, exc>>
       \/ \E e \in ExcKinds :
             /\ orig_exc' = e
             /\ IF FallbackCatches(e)
                THEN pc' = "list" /\ UNCHANGED exc
                ELSE pc' = "handle" /\ exc' = e
             /\ UNCHANGED data
    /\ UNCHANGED <<yt_url, video_id, tracks, track_i, list_exc, inner_exc,
                   message>>
    /\ UNCHANGED <<flow, uploadVars, transcript_text, notes_call, notesVars>>

\* lines 265-266: transcripts = ytt.list(video_id); data = None
ListTranscripts ==
    /\ flow = "youtube" /\ pc = "list"
    /\ \/ \E e \in ListExcKinds :
             /\ list_exc' = e
             /\ exc' = e
             /\ pc' = "handle"
             /\ UNCHANGED <<tracks, data>>
       \/ \E ts \in TrackLists :
             /\ tracks' = ts
             /\ data' = None
             /\ pc' = "tracks"
             /\ UNCHANGED <<list_exc, exc>>
    /\ UNCHANGED <<yt_url, video_id, track_i, orig_exc, inner_exc, message>>
    /\ UNCHANGED <<flow, uploadVars, transcript_text, notes_call, notesVars>>

\* lines 267-273: one iteration of `for t in transcripts`
TryTrack ==
    /\ flow = "youtube" /\ pc = "tracks"
    /\ track_i < Len(tracks)
    /\ LET t == tracks[track_i + 1]
       IN  IF t.kind = "raise"
           THEN /\ inner_exc' = t.exc
                /\ UNCHANGED <<data, pc>>
           ELSE /\ data' = t.data
                /\ pc' = IF Truthy(t.data) THEN "after_loop" ELSE "tracks"
                /\ UNCHANGED inner_exc
    /\ track_i' = track_i + 1
    /\ UNCHANGED <<yt_url, video_id, tracks, orig_exc, list_exc, exc, message>>
    /\ UNCHANGED <<flow, uploadVars, transcript_text, notes_call, notesVars>>

\* variant of the bare `raise` that raises the exception handled last
ReRaised_last(original, inner) == IF inner # "none" THEN inner ELSE original

\* line 276: the bare `raise` re-raises the exception the enclosing except
\* clause is handling
ReRaised(original, inner) == original

\* lines 274-276
AfterLoop ==
    /\ flow = "youtube"
    /\ pc = "after_loop" \/ (pc = "tracks" /\ track_i >= Len(tracks))
    /\ IF data = None
       THEN /\ exc' = ReRaised(orig_exc, inner_exc)
            /\ pc' = "handle"
       ELSE /\ pc' = "join"
            /\ UNCHANGED exc
    /\ UNCHANGED <<yt_url, video_id, data, tracks, track_i, orig_exc,
                   list_exc, inner_exc, message>>
    /\ UNCHANGED <<flow, uploadVars, transcript_text, notes_call, notesVars>>

\* lines 279-280
JoinText ==
    /\ flow = "youtube" /\ pc = "join"
    /\ transcript_text' = Join(data, <<" ">>)
    /\ message' = <<"YouTube Transcript retrieved!">>
    /\ pc' = "final"
    /\ UNCHANGED <<yt_url, video_id, data, tracks, track_i, orig_exc,
                   list_exc, inner_exc, exc>>
    /\ UNCHANGED <<flow, uploadVars, notes_call, notesVars>>

\* lines 281-288: the first except clause whose class matches
HandlerMessage(e) ==
    IF IsInstance(e, "TranscriptsDisabled")
    THEN <<"Transcripts are disabled for this video.">>
    ELSE IF IsInstance(e, "VideoUnavailable")
    THEN <<"Video unavailable - check the URL or region restrictions.">>
    ELSE IF IsInstance(e, "NoTranscriptFound")
    THEN <<"No transcript found for this video. It may not have captions (CC).">>
    ELSE <<"Could not get transcript: ">> \o Str(e)

Handle ==
    /\ flow = "youtube" /\ pc = "handle"
    /\ message' = HandlerMessage(exc)
    /\ pc' = "final"
    /\ UNCHANGED <<yt_url, video_id, data, tracks, track_i, orig_exc,
                   list_exc, inner_exc, exc>>
    /\ UNCHANGED <<flow, uploadVars, transcript_text, notes_call, notesVars>>

InitYouTube ==
    /\ flow = "youtube"
    /\ pc = "start"
    /\ UploadIdle
    /\ transcript_text = <<>>
    /\ notes_call = None
    /\ yt_url \in Urls
    /\ video_id = None
    /\ data = None
    /\ tracks = <<>>
    /\ track_i = 0
    /\ orig_exc = "none"
    /\ list_exc = "none"
    /\ inner_exc = "none"
    /\ exc = "none"
    /\ message = None
    /\ NotesIdle

NextYouTube ==
    \/ YtSubmit
    \/ DefaultFetch
    \/ ListTranscripts
    \/ TryTrack
    \/ AfterLoop
    \/ JoinText
    \/ Handle
    \/ FinalOutput

SpecYouTube == InitYouTube /\ [][NextYouTube]_vars

(***************************************************************************)
(* Properties of the YouTube flow                                          *)
(***************************************************************************)
FallbackEntered == orig_exc \in {"TranscriptsDisabled", "NoTranscriptFound",
                                 "CouldNotRetrieveTranscript"}

CatchAll(m) == m # None /\ Len(m) >= 1 /\ m[1] = "Could not get transcript: "

\* the message of the category of failure e
CategoryMessage(e) ==
    CASE e = "TranscriptsDisabled" ->
             <<"Transcripts are disabled for this video.">>
      [] e = "NoTranscriptFound" ->
             <<"No transcript found for this video. It may not have captions (CC).">>
      [] e = "VideoUnavailable" ->
             <<"Video unavailable - check the URL or region restrictions.">>
      [] e \in {"CouldNotRetrieveTranscript", "Exception"} ->
             <<"Could not get transcript: ", "<", e, ">">>

\* C7: when the default fetch fails with disabled / not found / retrieval
\* failed and the fallback gets no transcript, the original failure is
\* reported in its own category, whatever the enumeration step does
C7_OriginalFailureReported ==
    (pc \in {"final", "done"} /\ FallbackEntered /\ data = None) =>
        /\ message = CategoryMessage(orig_exc)
        /\ orig_exc = "TranscriptsDisabled" => ~CatchAll(message)

\* C7 as amended: the original failure is reported when ytt.list returns
\* and every track's fetch raises; when ytt.list itself raises, the
\* failure of ytt.list is what is reported
C7_OriginalReportedWhenListed ==
    (pc \in {"final", "done"} /\ FallbackEntered /\ data = None) =>
        /\ list_exc = "none" =>
              /\ \A k \in 1..Len(tracks) : tracks[k].kind = "raise"
              /\ track_i = Len(tracks)
              /\ message = CategoryMessage(orig_exc)
              /\ orig_exc = "TranscriptsDisabled" => ~CatchAll(message)
        /\ list_exc # "none" => message = CategoryMessage(list_exc)

C7_Witness ==
    /\ pc = "done"
    /\ orig_exc = "TranscriptsDisabled"
    /\ list_exc = "none"
    /\ Len(tracks) = 2
    /\ tracks[1].exc = "Exception"
    /\ tracks[2].exc = "CouldNotRetrieveTranscript"
    /\ data = None
    /\ message = <<"Transcripts are disabled for this video.">>

(***************************************************************************)
(* generate_ai_notes                                                       *)
(***************************************************************************)
\* number of ". "-separated fragments in the longest modelled transcript
MaxFrags == 6

\* line 152: the word limit of the summarizer input
MaxWords == 900

FragShort == <<"o", "k">>
FragCaps == <<"O", "k", " ", "o", "k">>
FragLong ==
    <<"e", "l", "e", "c", "t", "r", "o", "e", "n", "c", "e", "p", "h",
      "a", "l", "o", "g", "r", "a", "m", "s">>
FragEdge ==
    <<" ", "e", "l", "e", "c", "t", "r", "o", "e", "n", "c", "e", "p",
      "h", "a", "l", "o", "g", "r", "a", "m", " ">>

FragBodies == {FragShort, FragCaps, FragLong, FragEdge}

\* the transcripts handed to generate_ai_notes, built character by character
Transcripts ==
    {Join(fs, <<".", " ">>) :
        fs \in UNION {[1..n -> FragBodies] : n \in 1..MaxFrags}}

\* summaries the model returns
Summaries == {<<"s", "u", "m">>}

Placeholder == <<"Summary could not be generated.">>

\* the elements of a finite set of integers in increasing order
Ascending(S) ==
    [k \in 1..Cardinality(S) |->
        CHOOSE p \in S : Cardinality({q \in S : q < p}) = k - 1]

\* str.split(): the maximal runs of non-blank characters
SplitWs(s) ==
    LET starts == {p \in 1..Len(s) : s[p] # " " /\ (p = 1 \/ s[p - 1] = " ")}
        EndOf(p) == CHOOSE e \in p..Len(s) :
                        /\ \A k \in p..e : s[k] # " "
                        /\ e = Len(s) \/ s[e + 1] = " "
        st == Ascending(starts)
    IN  [k \in 1..Cardinality(starts) |-> SubSeq(s, st[k], EndOf(st[k]))]

\* str.split('. '): the pieces between the occurrences of ". "
SplitDotSpace(s) ==
    LET seps == {p \in 1..(Len(s) - 1) : s[p] = "." /\ s[p + 1] = " "}
        sp == Ascending(seps)
        n == Cardinality(seps)
    IN  [k \in 1..(n + 1) |->
            SubSeq(s, IF k = 1 THEN 1 ELSE sp[k - 1] + 2,
                      IF k = n + 1 THEN Len(s) ELSE sp[k] - 1)]

\* str.strip()
Strip(s) ==
    LET solid == {p \in 1..Len(s) : s[p] # " "}
    IN  IF solid = {} THEN <<>>
        ELSE SubSeq(s, CHOOSE p \in solid : \A q \in solid : p <= q,
                       CHOOSE p \in solid : \A q \in solid : p >= q)

LowerChar(c) == IF c = "O" THEN "o" ELSE c
UpperChar(c) == IF c = "o" THEN "O" ELSE IF c = "e" THEN "E" ELSE c

\* str.lower()
Lower(s) == [k \in 1..Len(s) |-> LowerChar(s[k])]

\* str.capitalize()
Capitalize(s) ==
    [k \in 1..Len(s) |-> IF k = 1 THEN UpperChar(s[k]) ELSE LowerChar(s[k])]

Range(f) == {f[k] : k \in DOMAIN f}

\* s[:n]
Prefix(s, n) == SubSeq(s, 1, Min(n, Len(s)))

\* lines 151-153
Truncate(t) ==
    LET words == SplitWs(t)
    IN  IF Len(words) > MaxWords THEN Join(Prefix(words, MaxWords), <<" ">>) ELSE t

\* variant of the comprehension that filters before it takes five
KeyPoints_filter_first(t) ==
    LET sentences == SplitDotSpace(t)
        long == SelectSeq(sentences, LAMBDA f : Len(Strip(f)) > 20)
    IN  [k \in 1..Min(5, Len(long)) |-> Strip(long[k]) \o <<".">>]

\* lines 163-164:
\* [s.strip() + '.' for s in sentences[:5] if len(s.strip()) > 20]
KeyPoints(t) ==
    LET sentences == SplitDotSpace(t)
        long == SelectSeq(Prefix(sentences, 5), LAMBDA f : Len(Strip(f)) > 20)
    IN  [k \in 1..Len(long) |-> Strip(long[k]) \o <<".">>]

\* line 165
BulletPoints(points) ==
    Join([k \in 1..Len(points) |-> <<"*", " ">> \o points[k]], <<"\n">>)

\* sorted(S, key=len, reverse=True): every order of S by decreasing length;
\* the order of words of equal length is the iteration order of the set
RECURSIVE SortedByLen(_)
SortedByLen(S) ==
    IF S = {} THEN {<<>>}
    ELSE LET longest == {w \in S : \A v \in S : Len(w) >= Len(v)}
         IN  UNION {{<<w>> \o rest : rest \in SortedByLen(S \ {w})} :
                        w \in longest}

\* line 168
ImportantWords(t) ==
    {Prefix(order, 10) : order \in SortedByLen(Range(SplitWs(Lower(t))))}

\* lines 169-186: the quiz section as its three questions
Quiz(iw) ==
    << [prompt |-> "What was the main topic discussed?",
        options |-> <<Capitalize(iw[1]), Capitalize(iw[2]),
                      <<"General information">> >>,
        answer |-> "a"],
       [prompt |-> "Key concepts mentioned:",
        options |-> <<IF Len(iw) > 2 THEN Capitalize(iw[3]) ELSE <<"Topic">>,
                      IF Len(iw) > 3 THEN Capitalize(iw[4]) ELSE <<"Discussion">>,
                      <<"Both of the above">> >>,
        answer |-> "c"],
       [prompt |-> "True or False: The transcript covered important details.",
        options |-> <<>>,
        answer |-> "True"] >>

\* lines 144-148: summarizer = load_summarizer()
LoadSummarizer ==
    /\ flow = "notes" /\ pc = "start"
    /\ \/ /\ summarizer' = "loaded"
          /\ pc' = "summarize"
          /\ UNCHANGED raised
       \/ \* pipeline(...) raises: nothing in generate_ai_notes catches it
          /\ summarizer' = "load_failed"
          /\ raised' = "Exception"
          /\ pc' = "done"
    /\ UNCHANGED <<transcript, summary_text, key_points, important_words, notes>>
    /\ UNCHANGED <<flow, uploadVars, ytVars, transcript_text, notes_call>>

\* lines 151-160
Summarize ==
    /\ flow = "notes" /\ pc = "summarize"
    /\ transcript' = Truncate(transcript)
    /\ \/ \E sm \in Summaries :
             /\ summary_text' = sm
             /\ summarizer' = "call_ok"
       \/ /\ summary_text' = Placeholder
          /\ summarizer' = "call_failed"
    /\ pc' = "key_points"
    /\ UNCHANGED <<key_points, important_words, notes, raised>>
    /\ UNCHANGED <<flow, uploadVars, ytVars, transcript_text, notes_call>>

\* lines 163-165
MakeKeyPoints ==
    /\ flow = "notes" /\ pc = "key_points"
    /\ key_points' = KeyPoints(transcript)
    /\ pc' = "quiz"
    /\ UNCHANGED <<transcript, summarizer, summary_text, important_words,
                   notes, raised>>
    /\ UNCHANGED <<flow, uploadVars, ytVars, transcript_text, notes_call>>

\* lines 168-200: important_words[0] and important_words[1] are indexed
\* without a length test
MakeQuizAndReturn ==
    /\ flow = "notes" /\ pc = "quiz"
    /\ \E iw \in ImportantWords(transcript) :
          /\ important_words' = iw
          /\ IF Len(iw) < 2
             THEN /\ raised' = "IndexError"
                  /\ UNCHANGED notes
             ELSE /\ notes' = [summary |-> summary_text,
                               bullets |-> BulletPoints(key_points),
                               quiz |-> Quiz(iw)]
                  /\ UNCHANGED raised
    /\ pc' = "done"
    /\ UNCHANGED <<transcript, summarizer, summary_text, key_points>>
    /\ UNCHANGED <<flow, uploadVars, ytVars, transcript_text, notes_call>>

InitNotes ==
    /\ flow = "notes"
    /\ pc = "start"
    /\ UploadIdle
    /\ YtIdle
    /\ transcript_text \in Transcripts
    /\ notes_call = transcript_text
    /\ transcript = transcript_text
    /\ summarizer = "none"
    /\ summary_text = None
    /\ key_points = <<>>
    /\ important_words = <<>>
    /\ notes = None
    /\ raised = "none"

NextNotes ==
    \/ LoadSummarizer
    \/ Summarize
    \/ MakeKeyPoints
    \/ MakeQuizAndReturn

SpecNotes == InitNotes /\ [][NextNotes]_vars

(***************************************************************************)
(* Properties of generate_ai_notes                                         *)
(***************************************************************************)
\* the distinct lowercased whitespace-separated words of the argument
DistinctWords == Range(SplitWs(Lower(transcript_text)))

\* the ". "-separated fragments of the argument
Fragments == SplitDotSpace(transcript_text)

Qualifies(f) == Len(Strip(f)) > 20

\* the fragments at the positions in P, in order, as bullets
BulletsAt(P) ==
    LET pos == Ascending(P)
    IN  [k \in 1..Cardinality(P) |-> Strip(Fragments[pos[k]]) \o <<".">>]

\* the bullet list has been computed
BulletsMade == pc = "quiz" \/ (pc = "done" /\ summarizer # "load_failed")

IsCompleteNotes ==
    /\ raised = "none"
    /\ notes # None
    /\ Len(notes.quiz) = 3

\* C5: with 1, 2 or 3 distinct words the call completes without an indexing
\* failure and the quiz has exactly 3 questions, fallback labels standing in
\* for the missing words
C5_FewWordsQuiz ==
    (pc = "done" /\ summarizer # "load_failed"
        /\ Cardinality(DistinctWords) \in 1..3) =>
            /\ raised # "IndexError"
            /\ IsCompleteNotes
            /\ Cardinality(DistinctWords) < 4 =>
                  notes.quiz[2].options[2] = <<"Discussion">>
            /\ Cardinality(DistinctWords) < 3 =>
                  notes.quiz[2].options[1] = <<"Topic">>

\* C6: the bullets are the first 5 (or all, if fewer) of the fragments whose
\* trimmed length exceeds 20, in their original order
C6_FirstFiveQualifying ==
    BulletsMade =>
        LET Q == {p \in 1..Len(Fragments) : Qualifies(Fragments[p])}
            first5 == {p \in Q : Cardinality({q \in Q : q < p}) < 5}
        IN  key_points = BulletsAt(first5)

\* C6 as amended: the bullets are the fragments among the first 5 fragments
\* whose trimmed length exceeds 20, in their original order
C6_QualifyingAmongFirstFive ==
    BulletsMade =>
        key_points = BulletsAt({p \in 1..Len(Fragments) :
                                    p <= 5 /\ Qualifies(Fragments[p])})

C6_Witness ==
    /\ pc = "done"
    /\ Len(Fragments) = 6
    /\ ~Qualifies(Fragments[1])
    /\ Qualifies(Fragments[2])
    /\ Len(Strip(Fragments[3])) = 20
    /\ Qualifies(Fragments[6])
    /\ Len(key_points) = 1

\* C8: when summarization fails for any reason, the failure to obtain the
\* model included, the placeholder is the summary and a complete notes
\* document is returned
C8_SummaryFailureNonFatal ==
    (pc = "done" /\ summarizer \in {"load_failed", "call_failed"}) =>
        /\ IsCompleteNotes
        /\ notes.summary = <<"Summary could not be generated.">>

====
